---- MODULE Spec2Model ----
(***************************************************************************)
(* stock-pulse: the showStock command (extension.ts), the YahooFinance     *)
(* client it creates per command (session bootstrap, the two snapshot      *)
(* requests with their retry loop, the payload parse) and the module-level *)
(* streaming connection with its open/message/error handlers.              *)
(*                                                                         *)
(* One step of the model is one run-to-completion turn of the JavaScript   *)
(* event loop: a handler runs from the event that resumes it (an HTTP      *)
(* response, a socket event, the user's input) to its next await.          *)
(***************************************************************************)
EXTENDS Integers, Sequences, FiniteSets, TLC

\* ------------------------------------------------------------------ bounds
\* commands the user may issue in one run
MaxCommands == 2
\* command invocations that may be in flight at once (slots 1..MaxOverlap)
MaxOverlap == 2
\* inbound frames delivered in one run
MaxFrames == 2
\* direct calls of the client's methods in one run
MaxCalls == 3

\* ------------------------------------------------------ JavaScript values
\* null / undefined of a numeric or token field
Undefined == -1
\* the empty string as a token (cookie or crumb)
EmptyTok == 0

\* `a || d` on numbers and tokens: undefined, 0 and '' are falsy
OrElse(a, d) == IF a = Undefined \/ a = 0 THEN d ELSE a

\* `!x` on a token or number
Falsy(x) == x = Undefined \/ x = 0

\* ---------------------------------------------------------------- tickers
\* a ticker is a string over a two-letter alphabet, in either case
UpperChar(ch) == CASE ch = "a" -> "A" [] ch = "b" -> "B" [] OTHER -> ch

\* String.prototype.toUpperCase
ToUpperCase(s) == [i \in DOMAIN s |-> UpperChar(s[i])]

\* what the input box can resolve to: <<>> is the empty or cancelled input
Tickers == {<<>>, <<"a">>, <<"B">>}

\* the symbols a provider payload or frame can name
Symbols == {<<"A">>, <<"B">>}

\* ------------------------------------------------------------ HTTP inputs
\* 500 stands for every outcome axios rejects whatever validateStatus says:
\* a server error, or no response at all (network fault)
Statuses == {200, 404, 500}

\* fetchCookie: validateStatus: (status) => status === 404
CookieValid(status) == status = 404

\* axios default validateStatus, used by fetchCrumb
DefaultValid_404ok(status) == (status >= 200 /\ status < 300) \/ status = 404
DefaultValid(status) == status >= 200 /\ status < 300

\* request: validateStatus: status >= 200 && status < 300 || status === 404
RequestValid(status) == (status >= 200 /\ status < 300) \/ status = 404

\* request: const maxAttempts = 3
maxAttempts == 3

\* request: while (attempts < maxAttempts)
RetryAllowed_le(a) == a <= maxAttempts
RetryAllowed(a) == a < maxAttempts

\* getQuote: if (quoteResponse.status === 404) return null
QuoteNotFound_never(status) == FALSE
QuoteNotFound(status) == status = 404

\* getQuote: if (!this.crumb || !this.cookie) throw
NotInitialized_both(cr, ck) == Falsy(cr) /\ Falsy(ck)
NotInitialized(cr, ck) == Falsy(cr) \/ Falsy(ck)

\* fetchCookie: response.headers['set-cookie']?.[0] || ''
\* hdr is the header's first value, Undefined when the header is absent
extractCookie(hdr) == OrElse(hdr, EmptyTok)

\* fetchCrumb: if (!this.cookie) throw new Error('Cookie not set')
CookieNotSet(ck) == Falsy(ck)

\* payload shapes of the two snapshot responses:
\*   "ok"        result list with a well-formed first element
\*   "emptyList" result: []
\*   "noResult"  result: null (what the provider sends with an error)
\*   "noFields"  a first element without the objects the parse reads
Shapes == {"ok", "emptyList", "noResult", "noFields"}

\* a payload without a first result element carries none of its fields
QuotePayloads ==
    [shape : {"ok"}, symbol : Symbols, dayHigh : {110}, dayLow : {90}]
    \cup [shape : Shapes \ {"ok"}, symbol : {<<>>}, dayHigh : {Undefined}, dayLow : {Undefined}]

PricePayloads ==
    [shape : {"ok"}, regularMarketPrice : {100}, regularMarketVolume : {Undefined, 50}]
    \cup [shape : Shapes \ {"ok"}, regularMarketPrice : {Undefined}, regularMarketVolume : {Undefined}]

\* parseStockInformation: result[0] of a null list throws, and so does a
\* property read on the undefined first element of an empty list or on a
\* missing quoteType, summaryDetail or meta object
ParseThrows_quoteOnly(q, p) == q.shape # "ok"
ParseThrows_chartOnly(q, p) == p.shape # "ok"
ParseThrows(q, p) == q.shape # "ok" \/ p.shape # "ok"

\* parseStockInformation: the record built from the two payloads
parseStockInformation(q, p) ==
    [ symbol |-> q.symbol,
      price  |-> [ current    |-> OrElse(p.regularMarketPrice, 0),
                   day_high   |-> OrElse(q.dayHigh, 0),
                   day_low    |-> OrElse(q.dayLow, 0),
                   day_volume |-> OrElse(p.regularMarketVolume, 0) ] ]

\* the value of a variable that holds no QuoteRecord (null / undefined)
NoInfo ==
    [ symbol |-> <<>>,
      price  |-> [ current |-> Undefined, day_high |-> Undefined,
                   day_low |-> Undefined, day_volume |-> Undefined ] ]

\* ----------------------------------------------------------------- state
VARIABLES
    pc,               \* per slot: which response the command awaits, or "idle"
    caller,           \* per slot: who awaits the client: "showStock" or "direct"
    ticker,           \* per slot: the ticker the user entered
    symbol,           \* per slot: the symbol getQuote was called with
    cookie,           \* per slot: YahooFinance.cookie of the command's instance
    crumb,            \* per slot: YahooFinance.crumb of the command's instance
    attempts,         \* per slot: request()'s local counter
    initFor,          \* per slot: the caller initialize() returns to
    boots,            \* per slot: initialize() calls made by the instance
    reqs,             \* per slot: HTTP requests issued (history)
    qResp,            \* per slot: the quote-metadata response getQuote holds
    stockInformation, \* extension.ts: let stockInformation
    stockStatusBar,   \* extension.ts: let stockStatusBar
    conns,            \* every WebSocket created, in creation order
    ws,               \* extension.ts: let ws (index into conns, 0 = null)
    deactivated,      \* deactivate() has run
    cmdCount,         \* commands issued so far
    frameCount,       \* frames delivered so far
    reports,          \* history: <<outcome, signal>> pairs shown to the user
    ev                \* history: the step just taken and its inputs

fetchVars == <<pc, caller, ticker, symbol, cookie, crumb, attempts, initFor, boots, reqs, qResp>>
feedVars == <<stockInformation, stockStatusBar, conns, ws>>
vars == <<pc, caller, ticker, symbol, cookie, crumb, attempts, initFor, boots, reqs, qResp,
          stockInformation, stockStatusBar, conns, ws, deactivated,
          cmdCount, frameCount, reports, ev>>

Slots == 1..MaxOverlap

\* inited: an initialize() call of the instance has returned without a throw
\* cmd: the number of the showStock command the instance was created by
NoReqs ==
    [cookie |-> 0, crumb |-> 0, quote |-> 0, price |-> 0, bootFails |-> 0,
     inited |-> FALSE, cmd |-> 0]

NoResp ==
    [ status  |-> Undefined,
      payload |-> [shape |-> "none", symbol |-> <<>>, dayHigh |-> Undefined, dayLow |-> Undefined] ]

\* the input of a step that has none worth recording
NoInput == [shape |-> "none"]

\* input: the decoded frame of a 'message' step, the price-chart payload of
\* the step that receives it
Event(op, c, status, aux, result, signal) ==
    [op |-> op, c |-> c, status |-> status, aux |-> aux,
     result |-> result, signal |-> signal, input |-> NoInput]

Init ==
    /\ pc = [c \in Slots |-> "idle"]
    /\ caller = [c \in Slots |-> "showStock"]
    /\ ticker = [c \in Slots |-> <<>>]
    /\ symbol = [c \in Slots |-> <<>>]
    /\ cookie = [c \in Slots |-> Undefined]
    /\ crumb = [c \in Slots |-> Undefined]
    /\ attempts = [c \in Slots |-> 0]
    /\ initFor = [c \in Slots |-> "first"]
    /\ boots = [c \in Slots |-> 0]
    /\ reqs = [c \in Slots |-> NoReqs]
    /\ qResp = [c \in Slots |-> NoResp]
    /\ stockInformation = NoInfo
    /\ stockStatusBar = "null"
    /\ conns = <<>>
    /\ ws = 0
    /\ deactivated = FALSE
    /\ cmdCount = 0
    /\ frameCount = 0
    /\ reports = {}
    /\ ev = Event("Init", 0, Undefined, "none", "none", "none")

\* ------------------------------------------------------------- WebSocket
\* WebSocket.close(): a socket that is connecting or open starts closing.
\* An open socket sends its close frame and is closed later, when the peer
\* answers or the timer fires; a connecting one has its handshake aborted.
WsClose_noop(conn) == conn
WsClose(conn) ==
    IF conn.state \in {"CONNECTING", "OPEN"}
    THEN [conn EXCEPT !.state = "CLOSING"]
    ELSE conn

\* new WebSocket(url) with the handlers of subscribeToStockPrice(t) attached
\* (opened: the handshake has completed, 'open' was emitted; dropped: the
\* message handler caught a decode error on it; failed: 'error' was emitted;
\* cmd: the number of the showStock command that created it)
NewSocket(t) ==
    [state |-> "CONNECTING", opened |-> FALSE, ticker |-> t, sent |-> <<>>,
     dropped |-> FALSE, failed |-> FALSE, cmd |-> 0]

\* a socket whose handshake completed and whose close has not
Live(conn) == conn.opened /\ conn.state # "CLOSED"

\* subscribeToStockPrice(t): if (ws) ws.close(); ws = new WebSocket(...)
SubscribedConns(cs, w, t) ==
    Append(IF w # 0 THEN [cs EXCEPT ![w] = WsClose(cs[w])] ELSE cs, NewSocket(t))

\* message handler, catch (error): the error is logged, the socket not touched
DecodeFailed_closes(conn) == [WsClose(conn) EXCEPT !.dropped = TRUE]
DecodeFailed(conn) == [conn EXCEPT !.dropped = TRUE]

\* 'error' handler: the error is logged; the transport is gone and nothing
\* creates a socket in its place
AfterError_reconnect(cs, k) ==
    Append([cs EXCEPT ![k].state = "CLOSED", ![k].failed = TRUE], NewSocket(cs[k].ticker))
AfterError(cs, k) == [cs EXCEPT ![k].state = "CLOSED", ![k].failed = TRUE]

\* deactivate: if (stockStatusBar) stockStatusBar.dispose()
DisposedBar_always(bar) == "disposed"
DisposedBar(bar) == IF bar # "null" THEN "disposed" ELSE bar

\* updateStockStatusBar: if (!stockStatusBar) stockStatusBar = new StockStatusBar()
UpdatedStatusBar(bar) == IF bar = "null" THEN "active" ELSE bar

\* fetchStockInformation: the value it returns for what getQuote or
\* initialize produced: the record, or null (not found, or caught error)
FetchReturns(result, info) == IF result = "record" THEN info ELSE NoInfo

\* activate: if (!newStockInformation) { showErrorMessage(...); return; }
FetchFailed_never(value) == FALSE
FetchFailed(value) == value = NoInfo

\* activate: what the user is shown for fetchStockInformation's value
SignalFor(value) == IF value = NoInfo THEN "fetchFailed" ELSE "shown"

\* --------------------------------------------------------------- actions
\* The tail of the showStock handler from the point where getQuote or
\* initialize has produced `result` (with `info` the parsed record): the
\* catch of fetchStockInformation, the null check, the replacement of the
\* tracked record, the status bar update and the new subscription. A client
\* called directly hands the result to its caller, and that is all.
Finish(c, result, info, op, status, aux, input) ==
    LET value == FetchReturns(result, info)
        signal == SignalFor(value)
    IN  /\ pc' = [pc EXCEPT ![c] = "idle"]
        /\ IF caller[c] = "direct"
           THEN /\ ev' = [Event(op, c, status, aux, result, "none") EXCEPT !.input = input]
                /\ UNCHANGED <<feedVars, reports>>
           ELSE /\ reports' = reports \cup {<<result, signal>>}
                /\ ev' = [Event(op, c, status, aux, result, signal) EXCEPT !.input = input]
                /\ IF FetchFailed(value)
                   THEN UNCHANGED feedVars
                   ELSE /\ stockInformation' = value
                        /\ stockStatusBar' = UpdatedStatusBar(stockStatusBar)
                        /\ conns' = [SubscribedConns(conns, ws, ticker[c])
                                     EXCEPT ![Len(conns) + 1].cmd = reqs[c].cmd]
                        /\ ws' = Len(conns) + 1

\* The command goes on waiting for a response: nothing is shown yet.
Pending(c, next, op, status, aux) ==
    /\ pc' = [pc EXCEPT ![c] = next]
    /\ ev' = Event(op, c, status, aux, "pending", "none")
    /\ UNCHANGED <<feedVars, reports>>

\* showStock: the input box resolves with t. An empty or cancelled input
\* ends the command; otherwise fetchStockInformation creates a YahooFinance
\* and initialize() issues the session request.
ShowStock(c, t) ==
    /\ pc[c] = "idle"
    /\ ~deactivated
    /\ cmdCount < MaxCommands
    /\ cmdCount' = cmdCount + 1
    /\ caller' = [caller EXCEPT ![c] = "showStock"]
    /\ ticker' = [ticker EXCEPT ![c] = t]
    /\ symbol' = [symbol EXCEPT ![c] = <<>>]
    /\ cookie' = [cookie EXCEPT ![c] = Undefined]
    /\ crumb' = [crumb EXCEPT ![c] = Undefined]
    /\ attempts' = [attempts EXCEPT ![c] = 0]
    /\ initFor' = [initFor EXCEPT ![c] = "first"]
    /\ qResp' = [qResp EXCEPT ![c] = NoResp]
    /\ UNCHANGED <<feedVars, deactivated, frameCount>>
    /\ IF t = <<>>
       THEN /\ pc' = pc
            /\ boots' = [boots EXCEPT ![c] = 0]
            /\ reqs' = [reqs EXCEPT ![c] = NoReqs]
            /\ reports' = reports \cup {<<"noTicker", "tickerRequired">>}
            /\ ev' = Event("ShowStock", c, Undefined, "empty", "noTicker", "tickerRequired")
       ELSE /\ pc' = [pc EXCEPT ![c] = "cookie"]
            /\ boots' = [boots EXCEPT ![c] = 1]
            /\ reqs' = [reqs EXCEPT ![c] = [NoReqs EXCEPT !.cookie = 1,
                                                         !.cmd = cmdCount + 1]]
            /\ reports' = reports
            /\ ev' = Event("ShowStock", c, Undefined, "ticker", "pending", "none")

\* initialize() is entered from request()'s catch: a new session request
EnterInitialize(c, who) ==
    /\ boots' = [boots EXCEPT ![c] = @ + 1]
    /\ initFor' = [initFor EXCEPT ![c] = who]
    /\ reqs' = [reqs EXCEPT ![c].cookie = 1, ![c].crumb = 0]

\* The session response arrives (hdr: the set-cookie value, Undefined when
\* the header is absent). fetchCookie returns or throws; on return the
\* cookie is stored and fetchCrumb checks it and issues the crumb request.
\* A throw leaves initialize through its catch, and from there the error
\* leaves request() and getQuote() too: nothing between catches it before
\* fetchStockInformation does.
CookieResponse(c, status, hdr) ==
    /\ pc[c] = "cookie"
    /\ UNCHANGED <<caller, ticker, symbol, crumb, attempts, initFor, boots, qResp,
                   deactivated, cmdCount, frameCount>>
    /\ LET aux == IF hdr = Undefined THEN "nohdr" ELSE "hdr"
       IN  IF CookieValid(status)
           THEN /\ cookie' = [cookie EXCEPT ![c] = extractCookie(hdr)]
                /\ IF CookieNotSet(extractCookie(hdr))
                   THEN /\ reqs' = [reqs EXCEPT ![c].bootFails = @ + 1]
                        /\ Finish(c, "initFailed", NoInfo, "CookieResponse", status, aux, NoInput)
                   ELSE /\ reqs' = [reqs EXCEPT ![c].crumb = @ + 1]
                        /\ Pending(c, "crumb", "CookieResponse", status, aux)
           ELSE /\ cookie' = cookie
                /\ reqs' = [reqs EXCEPT ![c].bootFails = @ + 1]
                /\ Finish(c, "initFailed", NoInfo, "CookieResponse", status, aux, NoInput)

\* The crumb response arrives (body: the response data). On success the
\* crumb is stored and initialize returns to its caller: to a direct
\* caller, to fetchStockInformation, which calls
\* getQuote(ticker.toUpperCase()) (its guard, then the first quote-metadata
\* request), or to request()'s catch, which counts the attempt and loops.
CrumbResponse(c, status, body) ==
    /\ pc[c] = "crumb"
    /\ UNCHANGED <<caller, ticker, cookie, initFor, boots, qResp,
                   deactivated, cmdCount, frameCount>>
    /\ symbol' = IF DefaultValid(status) /\ initFor[c] = "first"
                 THEN [symbol EXCEPT ![c] = ToUpperCase(ticker[c])]
                 ELSE symbol
    /\ LET aux == IF body = EmptyTok THEN "empty" ELSE "body"
       IN  IF DefaultValid(status)
           THEN /\ crumb' = [crumb EXCEPT ![c] = body]
                /\ IF initFor[c] = "direct"
                   THEN /\ attempts' = attempts
                        /\ reqs' = [reqs EXCEPT ![c].inited = TRUE]
                        /\ Finish(c, "initialized", NoInfo, "CrumbResponse", status, aux, NoInput)
                   ELSE IF initFor[c] = "first"
                   THEN IF NotInitialized(body, cookie[c])
                        THEN /\ attempts' = attempts
                             /\ reqs' = [reqs EXCEPT ![c].inited = TRUE]
                             /\ Finish(c, "notInitialized", NoInfo, "CrumbResponse", status, aux, NoInput)
                        ELSE /\ attempts' = [attempts EXCEPT ![c] = 0]
                             /\ reqs' = [reqs EXCEPT ![c].quote = @ + 1, ![c].inited = TRUE]
                             /\ Pending(c, "quote", "CrumbResponse", status, aux)
                   ELSE /\ attempts' = [attempts EXCEPT ![c] = @ + 1]
                        /\ IF RetryAllowed(attempts[c] + 1)
                           THEN /\ reqs' = [reqs EXCEPT ![c][initFor[c]] = @ + 1,
                                                        ![c].inited = TRUE]
                                /\ Pending(c, initFor[c], "CrumbResponse", status, aux)
                           ELSE /\ reqs' = [reqs EXCEPT ![c].inited = TRUE]
                                /\ Finish(c, "exhausted", NoInfo, "CrumbResponse", status, aux, NoInput)
           ELSE /\ crumb' = crumb
                /\ attempts' = attempts
                /\ reqs' = [reqs EXCEPT ![c].bootFails = @ + 1]
                /\ Finish(c, "initFailed", NoInfo, "CrumbResponse", status, aux, NoInput)

\* The quote-metadata response arrives. A validated status resolves the
\* request: 404 ends getQuote with null, any other starts the price-chart
\* request. Anything else throws into request()'s catch, which calls
\* initialize().
QuoteResponse(c, status, q) ==
    /\ pc[c] = "quote"
    /\ UNCHANGED <<caller, ticker, symbol, cookie, crumb, deactivated, cmdCount, frameCount>>
    /\ IF RequestValid(status)
       THEN /\ qResp' = [qResp EXCEPT ![c] = [status |-> status, payload |-> q]]
            /\ UNCHANGED <<initFor, boots>>
            /\ IF QuoteNotFound(status)
               THEN /\ UNCHANGED <<attempts, reqs>>
                    /\ Finish(c, "notfound", NoInfo, "QuoteResponse", status, q.shape, NoInput)
               ELSE /\ attempts' = [attempts EXCEPT ![c] = 0]
                    /\ reqs' = [reqs EXCEPT ![c].price = @ + 1]
                    /\ Pending(c, "price", "QuoteResponse", status, q.shape)
       ELSE /\ UNCHANGED <<qResp, attempts>>
            /\ EnterInitialize(c, "quote")
            /\ Pending(c, "cookie", "QuoteResponse", status, "none")

\* The price-chart response arrives. A validated status (404 included)
\* resolves the request and getQuote parses the two responses; anything
\* else throws into request()'s catch.
PriceResponse(c, status, p) ==
    /\ pc[c] = "price"
    /\ UNCHANGED <<caller, ticker, symbol, cookie, crumb, qResp, deactivated, cmdCount, frameCount>>
    /\ IF RequestValid(status)
       THEN /\ UNCHANGED <<initFor, boots, attempts, reqs>>
            /\ IF ParseThrows(qResp[c].payload, p)
               THEN Finish(c, "parseError", NoInfo, "PriceResponse", status, p.shape, p)
               ELSE Finish(c, "record", parseStockInformation(qResp[c].payload, p),
                           "PriceResponse", status, p.shape, p)
       ELSE /\ UNCHANGED attempts
            /\ EnterInitialize(c, "price")
            /\ Pending(c, "cookie", "PriceResponse", status, "none")

\* initialize() called directly on the instance of slot c, which lives on
\* between calls: the session request is issued
Initialize(c) ==
    /\ pc[c] = "idle"
    /\ cmdCount < MaxCalls
    /\ cmdCount' = cmdCount + 1
    /\ caller' = [caller EXCEPT ![c] = "direct"]
    /\ initFor' = [initFor EXCEPT ![c] = "direct"]
    /\ boots' = [boots EXCEPT ![c] = @ + 1]
    /\ reqs' = [reqs EXCEPT ![c].cookie = 1, ![c].crumb = 0]
    /\ pc' = [pc EXCEPT ![c] = "cookie"]
    /\ ev' = Event("Initialize", c, Undefined, "none", "pending", "none")
    /\ UNCHANGED <<ticker, symbol, cookie, crumb, attempts, qResp,
                   feedVars, deactivated, frameCount, reports>>

\* getQuote(s) called directly on the instance of slot c: the guard throws,
\* or the first quote-metadata request is issued
GetQuote(c, s) ==
    /\ pc[c] = "idle"
    /\ cmdCount < MaxCalls
    /\ cmdCount' = cmdCount + 1
    /\ caller' = [caller EXCEPT ![c] = "direct"]
    /\ symbol' = [symbol EXCEPT ![c] = s]
    /\ qResp' = [qResp EXCEPT ![c] = NoResp]
    /\ attempts' = [attempts EXCEPT ![c] = 0]
    /\ UNCHANGED <<ticker, cookie, crumb, initFor, boots,
                   feedVars, deactivated, frameCount, reports>>
    /\ IF NotInitialized(crumb[c], cookie[c])
       THEN /\ pc' = pc
            /\ reqs' = [reqs EXCEPT ![c].quote = 0, ![c].price = 0]
            /\ ev' = Event("GetQuote", c, Undefined, "none", "notInitialized", "none")
       ELSE /\ pc' = [pc EXCEPT ![c] = "quote"]
            /\ reqs' = [reqs EXCEPT ![c].quote = 1, ![c].price = 0]
            /\ ev' = Event("GetQuote", c, Undefined, "none", "pending", "none")

\* ------------------------------------------------------- streaming feed
\* A decoded frame (PricingData.decode(bytes).toJSON()): a field the wire
\* does not carry is absent from the object, so reading it gives undefined.
\* decodable = FALSE is a frame atob or PricingData.decode throws on.
Frames ==
    [decodable : BOOLEAN, id : Symbols, price : {120},
     dayHigh : {115}, dayLow : {Undefined}, dayVolume : {Undefined}]

\* frames for the merge: each numeric field absent, zero or a value
MergeFrames ==
    [decodable : {TRUE}, id : {<<"B">>}, price : {Undefined, 0, 120},
     dayHigh : {Undefined, 0, 115}, dayLow : {Undefined, 0, 85},
     dayVolume : {Undefined, 0, 60}]

\* the five assignments of the message handler's merge
MergedPrice_lowUnguarded(old, f) ==
    [ current    |-> f.price,
      day_high   |-> OrElse(f.dayHigh, old.day_high),
      day_low    |-> f.dayLow,
      day_volume |-> OrElse(f.dayVolume, old.day_volume) ]
MergedPrice(old, f) ==
    [ current    |-> f.price,
      day_high   |-> OrElse(f.dayHigh, old.day_high),
      day_low    |-> OrElse(f.dayLow, old.day_low),
      day_volume |-> OrElse(f.dayVolume, old.day_volume) ]

\* StockStatusBar.setStockPrice: price.current.toFixed(2) throws on undefined
SetStockPriceThrows(price) == price.current = Undefined

\* message handler: if (stockStatusBar && content.id === ticker)
FrameAccepted_anyId(bar, f, t) == bar # "null"
FrameAccepted(bar, f, t) == bar # "null" /\ f.id = t

\* 'open' of connection k: ws?.send(JSON.stringify({subscribe: [ticker]})),
\* where ws is the module variable at the time of the event and ticker the
\* one subscribeToStockPrice was called with. send() delivers only on an
\* open socket.
ConnOpen(k) ==
    /\ k \in DOMAIN conns
    /\ conns[k].state = "CONNECTING"
    /\ LET opened == [conns EXCEPT ![k].state = "OPEN", ![k].opened = TRUE]
       IN  conns' = IF ws # 0 /\ opened[ws].state = "OPEN"
                    THEN [opened EXCEPT ![ws].sent = Append(@, conns[k].ticker)]
                    ELSE opened
    /\ ev' = Event("ConnOpen", k, Undefined, "none", "none", "none")
    /\ UNCHANGED <<fetchVars, stockInformation, stockStatusBar, ws,
                   deactivated, cmdCount, frameCount, reports>>

\* 'message' of connection k with frame f. A socket that is closing still
\* receives what the peer sent before it answers the close.
Message(k, f) ==
    /\ k \in DOMAIN conns
    /\ Live(conns[k])
    /\ frameCount < MaxFrames
    /\ frameCount' = frameCount + 1
    /\ UNCHANGED <<fetchVars, stockStatusBar, ws, deactivated, cmdCount, reports>>
    /\ IF ~f.decodable
       THEN /\ stockInformation' = stockInformation
            /\ conns' = [conns EXCEPT ![k] = DecodeFailed(@)]
            /\ ev' = [Event("Message", k, Undefined, "decodeError", "none", "none")
                      EXCEPT !.input = f]
       ELSE IF stockInformation = NoInfo \/ ~FrameAccepted(stockStatusBar, f, conns[k].ticker)
       THEN /\ stockInformation' = stockInformation
            /\ conns' = conns
            /\ ev' = [Event("Message", k, Undefined, "ignored", "none", "none")
                      EXCEPT !.input = f]
       ELSE /\ stockInformation' =
                  [stockInformation EXCEPT !.price = MergedPrice(@, f)]
            /\ conns' = conns
            /\ ev' = [Event("Message", k, Undefined,
                            IF SetStockPriceThrows(MergedPrice(stockInformation.price, f))
                            THEN "mergedThrow" ELSE "merged",
                            "none",
                            IF SetStockPriceThrows(MergedPrice(stockInformation.price, f))
                            THEN "none" ELSE "priceShown")
                      EXCEPT !.input = f]

\* the closing handshake of connection k completes
ConnClosed(k) ==
    /\ k \in DOMAIN conns
    /\ conns[k].state = "CLOSING"
    /\ conns' = [conns EXCEPT ![k].state = "CLOSED"]
    /\ ev' = Event("ConnClosed", k, Undefined, "none", "none", "none")
    /\ UNCHANGED <<fetchVars, stockInformation, stockStatusBar, ws,
                   deactivated, cmdCount, frameCount, reports>>

\* 'error' of connection k (the transport failed): the handler logs, the
\* socket is closed, nothing reconnects
ConnError(k) ==
    /\ k \in DOMAIN conns
    /\ conns[k].state \in {"CONNECTING", "OPEN"}
    /\ conns' = AfterError(conns, k)
    /\ ev' = Event("ConnError", k, Undefined, "none", "none", "none")
    /\ UNCHANGED <<fetchVars, stockInformation, stockStatusBar, ws,
                   deactivated, cmdCount, frameCount, reports>>

\* deactivate(): dispose the status bar if any, close the socket if any.
\* The function is exported: nothing keeps a caller from calling it again.
Deactivate ==
    /\ deactivated' = TRUE
    /\ stockStatusBar' = DisposedBar(stockStatusBar)
    /\ conns' = IF ws # 0 THEN [conns EXCEPT ![ws] = WsClose(@)] ELSE conns
    /\ ev' = Event("Deactivate", 0, Undefined, "none", "none", "none")
    /\ UNCHANGED <<fetchVars, stockInformation, ws, cmdCount, frameCount, reports>>

\* -------------------------------------------------------- specification
CookieHeaders(c) == {Undefined, boots[c]}

CrumbBodies(c) == {EmptyTok, boots[c]}

\* one command at a time, the connection's events not delivered: the
\* fetch pipeline alone
NextFetch ==
    \/ \E t \in Tickers : ShowStock(1, t)
    \/ \E s \in Statuses : \E h \in CookieHeaders(1) : CookieResponse(1, s, h)
    \/ \E s \in Statuses : \E b \in CrumbBodies(1) : CrumbResponse(1, s, b)
    \/ \E s \in Statuses, q \in QuotePayloads : QuoteResponse(1, s, q)
    \/ \E s \in Statuses, p \in PricePayloads : PriceResponse(1, s, p)

SpecFetch == Init /\ [][NextFetch]_vars

\* The client's two public methods called directly, in any order, on one
\* instance that lives on between the calls.
NextClient ==
    \/ Initialize(1)
    \/ \E s \in Symbols : GetQuote(1, s)
    \/ \E s \in Statuses : \E h \in CookieHeaders(1) : CookieResponse(1, s, h)
    \/ \E s \in Statuses : \E b \in CrumbBodies(1) : CrumbResponse(1, s, b)
    \/ \E s \in Statuses, q \in QuotePayloads : QuoteResponse(1, s, q)
    \/ \E s \in Statuses, p \in PricePayloads : PriceResponse(1, s, p)

SpecClient == Init /\ [][NextClient]_vars

\* The feed with one command at a time, the connections' events and
\* deactivate(). The bootstrap succeeds here and no snapshot request needs a
\* retry: a fetch ends with a record, with not-found or with a parse error.
FeedQuotePayloads == {q \in QuotePayloads : q.shape = "ok"}

FeedPricePayloads ==
    {p \in PricePayloads : p.shape = "noResult" \/ p.regularMarketVolume = 50}

NextFeed ==
    \/ \E t \in Tickers : ShowStock(1, t)
    \/ CookieResponse(1, 404, boots[1])
    \/ CrumbResponse(1, 200, boots[1])
    \/ \E s \in {200, 404}, q \in FeedQuotePayloads : QuoteResponse(1, s, q)
    \/ \E p \in FeedPricePayloads : PriceResponse(1, 200, p)
    \/ \E k \in DOMAIN conns : ConnOpen(k)
    \/ \E k \in DOMAIN conns, f \in Frames : Message(k, f)
    \/ \E k \in DOMAIN conns : ConnClosed(k)
    \/ \E k \in DOMAIN conns : ConnError(k)
    \/ Deactivate

SpecFeed == Init /\ [][NextFeed]_vars

\* Commands that overlap: a second showStock is issued while the first
\* one's fetch is in flight, each with its own YahooFinance instance. The
\* connections open and close; no frame is delivered.
Next ==
    \/ \E c \in Slots, t \in Tickers : ShowStock(c, t)
    \/ \E c \in Slots : CookieResponse(c, 404, boots[c])
    \/ \E c \in Slots : CrumbResponse(c, 200, boots[c])
    \/ \E c \in Slots, s \in {200, 404}, q \in FeedQuotePayloads : QuoteResponse(c, s, q)
    \/ \E c \in Slots, p \in FeedPricePayloads : PriceResponse(c, 200, p)
    \/ \E k \in DOMAIN conns : ConnOpen(k)
    \/ \E k \in DOMAIN conns : ConnClosed(k)

Spec == Init /\ [][Next]_vars

\* The merge alone: commands for ticker B whose fetch succeeds, the
\* connection opens, and frames for B arrive with each numeric field
\* absent, zero or a value.
NextMerge ==
    \/ ShowStock(1, <<"B">>)
    \/ CookieResponse(1, 404, boots[1])
    \/ CrumbResponse(1, 200, boots[1])
    \/ \E q \in {r \in FeedQuotePayloads : r.symbol = <<"B">>} : QuoteResponse(1, 200, q)
    \/ \E p \in {r \in PricePayloads : r.shape = "ok"} : PriceResponse(1, 200, p)
    \/ \E k \in DOMAIN conns : ConnOpen(k)
    \/ \E k \in DOMAIN conns, f \in MergeFrames : Message(k, f)

SpecMerge == Init /\ [][NextMerge]_vars

\* ---------------------------------------------------------------- claims
\* a status the HTTP layer calls success
Success(status) == status >= 200 /\ status < 300

\* the outcomes of a fetch that are hard errors
HardErrors == {"initFailed", "notInitialized", "exhausted", "parseError"}

\* C1 (as stated): one getQuote call makes at most 3 snapshot HTTP attempts
\* in total, and the third failed attempt of the call surfaces an error with
\* no further request issued.
C1_ThreeAttemptsInTotal ==
    \A c \in Slots :
        /\ reqs[c].quote + reqs[c].price <= 3
        /\ (ev.op \in {"QuoteResponse", "PriceResponse"} /\ ev.c = c
            /\ ~RequestValid(ev.status) /\ reqs[c].quote + reqs[c].price = 3)
           => (ev.result = "exhausted" /\ pc[c] = "idle")

\* C1 (amended): each of the two snapshot requests of a getQuote call is
\* attempted at most 3 times (at most 6 snapshot attempts in the call); a
\* failed attempt, the third included, is followed by a session re-bootstrap;
\* when the re-bootstrap after a request's third failed attempt succeeds the
\* call ends with an error, and no snapshot request is pending or issued.
C1_ThreeAttemptsPerRequest ==
    \A c \in Slots :
        /\ reqs[c].quote <= 3
        /\ reqs[c].price <= 3
        /\ (ev.op \in {"QuoteResponse", "PriceResponse"} /\ ev.c = c
            /\ ~RequestValid(ev.status))
           => (pc[c] = "cookie" /\ ev.result = "pending")
        /\ (ev.op = "CrumbResponse" /\ ev.c = c /\ Success(ev.status)
            /\ initFor[c] # "first" /\ reqs[c][initFor[c]] = 3 /\ attempts[c] = 3)
           => (ev.result = "exhausted" /\ pc[c] = "idle")

\* C1 witness: a call that made three quote-metadata attempts and three
\* price-chart attempts and then gave up.
C1_Witness ==
    /\ ev.result = "exhausted"
    /\ reqs[1].quote = 3
    /\ reqs[1].price = 3

\* C2 (as stated): a failed initialize is retried by the orchestration layer
\* within the 3-attempt bound, so an initialization error reaches the user
\* only after three bootstraps have failed, never after one.
C2_BootstrapRetried ==
    ev.result = "initFailed" => reqs[ev.c].bootFails >= 3

\* C3: when both snapshot responses have a success status and a payload is
\* malformed or empty, the step that receives the second response ends the
\* call with an error: no re-bootstrap, no further HTTP request.
C3_MalformedSurfacedAtOnce ==
    [][ (/\ ev'.op = "PriceResponse"
         /\ Success(ev'.status)
         /\ Success(qResp[ev'.c].status)
         /\ (qResp[ev'.c].payload.shape # "ok" \/ ev'.aux # "ok"))
        => (/\ ev'.result = "parseError"
            /\ ev'.signal = "fetchFailed"
            /\ pc'[ev'.c] = "idle"
            /\ reqs' = reqs
            /\ boots' = boots) ]_vars

\* C3 witness: a success response with an empty chart result list ended the
\* call with the parse error.
C3_Witness ==
    /\ ev.op = "PriceResponse"
    /\ ev.status = 200
    /\ ev.aux = "emptyList"
    /\ Success(qResp[1].status)
    /\ qResp[1].payload.shape = "ok"
    /\ ev.result = "parseError"

\* C4: a quote-metadata response with status 404 ends getQuote with null in
\* the same step: the price-chart request is never issued, nothing is
\* retried and the session is not re-bootstrapped.
C4_QuoteNotFoundIsNull ==
    [][ (ev'.op = "QuoteResponse" /\ ev'.status = 404)
        => (/\ ev'.result = "notfound"
            /\ pc'[ev'.c] = "idle"
            /\ reqs'[ev'.c].price = 0
            /\ reqs' = reqs
            /\ boots' = boots) ]_vars

\* C4 witness: a call ended with not-found on a 404 quote-metadata response
\* that came on a retried attempt.
C4_Witness ==
    /\ ev.op = "QuoteResponse"
    /\ ev.status = 404
    /\ ev.result = "notfound"
    /\ reqs[1].quote = 2

\* C5 (as stated): when the quote-metadata request succeeds and the
\* price-chart request returns 404, getQuote returns null (not found).
C5_ChartNotFoundIsNull ==
    (/\ ev.op = "PriceResponse"
     /\ ev.status = 404
     /\ Success(qResp[ev.c].status))
    => ev.result = "notfound"

\* C6: when both snapshot responses have a success status and the
\* quote-metadata result list is empty, getQuote fails with an error: it
\* returns neither null nor a QuoteRecord.
C6_EmptyMetadataIsError ==
    (/\ ev.op = "PriceResponse"
     /\ Success(ev.status)
     /\ Success(qResp[ev.c].status)
     /\ qResp[ev.c].payload.shape = "emptyList")
    => (ev.result \in HardErrors /\ ev.signal # "shown")

\* C6 witness: an empty metadata list with a well-formed chart payload.
C6_Witness ==
    /\ ev.op = "PriceResponse"
    /\ ev.status = 200
    /\ ev.aux = "ok"
    /\ qResp[1].status = 200
    /\ qResp[1].payload.shape = "emptyList"
    /\ ev.result = "parseError"

\* C7 (as stated): what the user is shown for a symbol that does not exist
\* differs from what is shown for a hard error.
C7_NotFoundDistinct ==
    \A a \in reports, b \in reports :
        (a[1] = "notfound" /\ b[1] \in HardErrors) => a[2] # b[2]

\* C8 (as stated): a session response without a set-cookie header makes the
\* cookie the empty string and bootstrap goes on: the crumb request is
\* issued and initialize does not fail.
C8_MissingCookieTolerated ==
    (/\ ev.op = "CookieResponse"
     /\ CookieValid(ev.status)
     /\ ev.aux = "nohdr")
    => (/\ cookie[ev.c] = EmptyTok
        /\ pc[ev.c] = "crumb"
        /\ reqs[ev.c].crumb = 1
        /\ ev.result = "pending")

\* C9: one call of initialize issues at most one session request and at
\* most one crumb request, and a crumb response with a non-success status
\* ends the call with an error, nothing retried.
C9_InitializeOnceNoRetry ==
    \A c \in Slots :
        /\ reqs[c].cookie <= 1
        /\ reqs[c].crumb <= 1
        /\ (ev.op = "CrumbResponse" /\ ev.c = c /\ ~Success(ev.status))
           => (/\ ev.result = "initFailed"
               /\ pc[c] = "idle"
               /\ reqs[c].cookie = 1
               /\ reqs[c].crumb = 1)

\* C9 witness: a crumb response with a non-success status after one session
\* request and one crumb request.
C9_Witness ==
    /\ ev.op = "CrumbResponse"
    /\ ev.status = 404
    /\ ev.result = "initFailed"
    /\ reqs[1].cookie = 1
    /\ reqs[1].crumb = 1

\* C10 (as stated): no two streaming connections are live at once: when a
\* later connection has completed its handshake, no earlier one is live
\* (each is closed, or never got past its own handshake), and an earlier
\* connection delivers no frame while a later one is open.
C10_OneLiveConnection ==
    \A j \in DOMAIN conns, k \in DOMAIN conns :
        (j < k /\ conns[k].state = "OPEN")
        => (/\ ~Live(conns[j])
            /\ ~(ev.op = "Message" /\ ev.c = j))

\* C11 (as stated): once deactivate has run, no streaming connection is
\* connecting or open, and a fetch that completes afterwards has its result
\* discarded: it neither shows a record nor creates a connection.
C11_DisposedStaysClosed ==
    deactivated
    => (/\ \A k \in DOMAIN conns : conns[k].state \notin {"CONNECTING", "OPEN"}
        /\ ~(ev.op = "PriceResponse" /\ ev.signal = "shown"))

\* C12: a frame that fails to decode is dropped: the record and the status
\* bar are unchanged, nothing is shown, no connection changes state; and a
\* valid frame for the subscribed ticker that arrives later on a connection
\* that dropped a frame is merged and shown.
C12_UndecodableDropped ==
    [][ /\ (ev'.op = "Message" /\ ~ev'.input.decodable)
           => (/\ stockInformation' = stockInformation
               /\ stockStatusBar' = stockStatusBar
               /\ ws' = ws
               /\ ev'.signal = "none"
               /\ Len(conns') = Len(conns)
               /\ \A k \in DOMAIN conns : conns'[k].state = conns[k].state)
        /\ (/\ ev'.op = "Message"
            /\ ev'.input.decodable
            /\ conns[ev'.c].dropped
            /\ stockInformation # NoInfo
            /\ stockStatusBar # "null"
            /\ ev'.input.id = conns[ev'.c].ticker)
           => (/\ ev'.aux = "merged"
               /\ ev'.signal = "priceShown"
               /\ stockInformation'.price.current = ev'.input.price) ]_vars

\* C12 witness: a connection that dropped a frame is still open and has
\* merged a later frame.
C12_Witness ==
    /\ ev.op = "Message"
    /\ ev.aux = "merged"
    /\ conns[ev.c].dropped
    /\ conns[ev.c].state = "OPEN"
    /\ stockInformation.price.current = 120

\* C13 (as stated): merging a frame whose price is absent or zero leaves
\* the record's current price at the value it had before the frame.
C13_AbsentPriceKeepsCurrent ==
    [][ (/\ ev'.op = "Message"
         /\ ev'.aux \in {"merged", "mergedThrow"}
         /\ Falsy(ev'.input.price))
        => stockInformation'.price.current = stockInformation.price.current ]_vars

C15_OtherIdDiscarded ==
    [][ (/\ ev'.op = "Message"
         /\ ev'.input.decodable
         /\ ev'.input.id # conns[ev'.c].ticker)
        => (/\ stockInformation' = stockInformation
            /\ stockStatusBar' = stockStatusBar
            /\ ev'.aux = "ignored"
            /\ ev'.signal = "none") ]_vars

\* C15 witness: a frame for A arrived on the connection subscribed to B
\* while a record was shown, and was ignored.
C15_Witness ==
    /\ ev.op = "Message"
    /\ ev.aux = "ignored"
    /\ ev.input.decodable
    /\ ev.input.id = <<"A">>
    /\ conns[ev.c].ticker = <<"B">>
    /\ stockInformation # NoInfo
    /\ stockStatusBar = "active"

\* C16: deactivate is idempotent and safe in every state: called when no
\* connection exists it changes nothing of the feed; called right after
\* itself it changes nothing at all; and after any call the current
\* connection, if there is one, is closing or closed.
C16_DisposeIdempotent ==
    [][ ev'.op = "Deactivate"
        => (/\ ws = 0 => (/\ conns' = conns
                          /\ stockStatusBar' = stockStatusBar
                          /\ stockInformation' = stockInformation
                          /\ ws' = ws)
            /\ ev.op = "Deactivate" => (/\ conns' = conns
                                        /\ stockStatusBar' = stockStatusBar
                                        /\ stockInformation' = stockInformation
                                        /\ ws' = ws)
            /\ ws' # 0 => conns'[ws'].state \in {"CLOSING", "CLOSED"}
            /\ reports' = reports
            /\ pc' = pc) ]_vars

\* C16 witness: deactivate ran with an open connection, which is closing,
\* and the status bar is disposed.
C16_Witness ==
    /\ ev.op = "Deactivate"
    /\ ws # 0
    /\ conns[ws].opened
    /\ conns[ws].state = "CLOSING"
    /\ stockStatusBar = "disposed"

\* C17: no connection is created by anything but a subscribe (the end of a
\* showStock that fetched a record): not by a close, not by an error. A
\* closed connection stays closed. A subscribe creates one new connection,
\* makes it the current one, and when it opens the subscription for its
\* ticker is sent on it.
C17_NoAutoReconnect ==
    [][ /\ Len(conns') >= Len(conns)
        /\ Len(conns') > Len(conns)
           => (ev'.op = "PriceResponse" /\ ev'.result = "record")
        /\ \A k \in DOMAIN conns :
               conns[k].state = "CLOSED" => conns'[k].state = "CLOSED"
        /\ (ev'.op = "PriceResponse" /\ ev'.result = "record")
           => (/\ Len(conns') = Len(conns) + 1
               /\ ws' = Len(conns')
               /\ conns'[ws'].state = "CONNECTING"
               /\ conns'[ws'].ticker = ticker[ev'.c])
        /\ (ev'.op = "ConnOpen" /\ ev'.c = ws)
           => (/\ conns'[ws].state = "OPEN"
               /\ conns'[ws].sent = <<conns[ws].ticker>>) ]_vars

\* C17 witness: the first connection failed; a later showStock subscribed
\* again, and its connection is open with its subscription sent.
C17_Witness ==
    /\ Len(conns) = 2
    /\ conns[1].failed
    /\ conns[1].state = "CLOSED"
    /\ ws = 2
    /\ conns[2].state = "OPEN"
    /\ conns[2].sent = <<conns[2].ticker>>

\* C18 (as stated): when both snapshot requests succeed with well-formed
\* payloads, the record's symbol is the symbol getQuote was called with
\* (the ticker uppercased), whatever symbol the payload carries.
C18_SymbolIsRequested ==
    (/\ ev.op = "PriceResponse"
     /\ ev.result = "record")
    => (/\ stockInformation.symbol = symbol[ev.c]
        /\ stockInformation.symbol = ToUpperCase(ticker[ev.c]))

\* C19 (as stated): a record built from a chart payload without a volume
\* field has no day volume (null), not zero.
C19_AbsentVolumeIsNull ==
    (/\ ev.op = "PriceResponse"
     /\ ev.result = "record"
     /\ ev.input.regularMarketVolume = Undefined)
    => stockInformation.price.day_volume = Undefined

\* C20: getQuote called on an instance none of whose initialize calls has
\* returned without a throw fails with the not-initialized error in the same
\* step, and issues no HTTP request: no snapshot request, no bootstrap.
C20_UninitializedGetQuoteRefused ==
    [][ (ev'.op = "GetQuote" /\ ~reqs[ev'.c].inited)
        => (/\ ev'.result = "notInitialized"
            /\ pc'[ev'.c] = "idle"
            /\ reqs'[ev'.c].quote = 0
            /\ reqs'[ev'.c].price = 0
            /\ reqs'[ev'.c].cookie = reqs[ev'.c].cookie
            /\ reqs'[ev'.c].crumb = reqs[ev'.c].crumb
            /\ boots' = boots) ]_vars

\* C20 witness: getQuote was refused on an instance whose only initialize
\* got a cookie and then failed at the crumb request.
C20_Witness ==
    /\ ev.op = "GetQuote"
    /\ ev.result = "notInitialized"
    /\ ~reqs[ev.c].inited
    /\ ~Falsy(cookie[ev.c])
    /\ crumb[ev.c] = Undefined
    /\ reqs[ev.c].crumb = 1

\* C21: a connection that has opened has had exactly one subscription
\* message sent on it, naming the ticker it was created for; a connection
\* that has not opened has had none. So no subscription message is ever
\* sent on a connection created by another subscribe call.
C21_OwnSubscriptionOnce ==
    \A k \in DOMAIN conns :
        /\ conns[k].opened => conns[k].sent = <<conns[k].ticker>>
        /\ ~conns[k].opened => conns[k].sent = <<>>

\* C21 witness: two connections created for different tickers have both
\* opened, each with its own subscription sent on it.
C21_Witness ==
    /\ Len(conns) = 2
    /\ conns[1].ticker # conns[2].ticker
    /\ conns[1].opened
    /\ conns[2].state = "OPEN"
    /\ conns[1].sent = <<conns[1].ticker>>
    /\ conns[2].sent = <<conns[2].ticker>>

\* C22 (as stated): a frame delivered by a connection that a later
\* subscribe for another ticker has superseded (closing, still draining)
\* is never merged into the tracked record.
C22_SupersededFrameIgnored ==
    (/\ ev.op = "Message"
     /\ ev.c # ws
     /\ conns[ev.c].ticker # conns[ws].ticker)
    => ev.aux \notin {"merged", "mergedThrow"}

\* C23 (as stated): whenever a snapshot request is in flight, the cookie
\* and the crumb it carries come from the same bootstrap. (A session
\* response and a crumb response carry the number of the bootstrap they
\* answer; the empty crumb carries none.)
C23_SessionPairConsistent ==
    \A c \in Slots :
        (pc[c] \in {"quote", "price"} /\ crumb[c] # EmptyTok)
        => cookie[c] = crumb[c]

\* C24: a step of a showStock command that does not end its fetch with a
\* record (the fetch goes on, returns not-found, or fails) leaves the
\* tracked record, the status bar, every connection and the current
\* connection as they were.
C24_FailedFetchChangesNothing ==
    [][ (/\ ev'.op \in {"ShowStock", "CookieResponse", "CrumbResponse",
                        "QuoteResponse", "PriceResponse"}
         /\ ev'.result # "record")
        => (/\ stockInformation' = stockInformation
            /\ stockStatusBar' = stockStatusBar
            /\ conns' = conns
            /\ ws' = ws) ]_vars

\* C24 witness: with a record tracked and its connection current, a later
\* command ended with not-found, and both are still there.
C24_Witness ==
    /\ ev.op = "QuoteResponse"
    /\ ev.result = "notfound"
    /\ ev.signal = "fetchFailed"
    /\ cmdCount = 2
    /\ stockInformation # NoInfo
    /\ ws = 1
    /\ Len(conns) = 1
    /\ conns[1].state = "CONNECTING"

\* C25 (as stated): after a successful showStock the ticker the new
\* connection subscribes with and filters on is the symbol the snapshot was
\* fetched for (the input uppercased), and a decodable frame on the current
\* connection whose id is the tracked record's symbol is merged.
C25_SubscribedSymbolIsFetched ==
    /\ (ev.op = "PriceResponse" /\ ev.result = "record")
       => (/\ conns[ws].ticker = symbol[ev.c]
           /\ conns[ws].ticker = ToUpperCase(ticker[ev.c]))
    /\ (/\ ev.op = "Message"
        /\ ev.c = ws
        /\ ev.input.decodable
        /\ stockStatusBar # "null"
        /\ ev.input.id = stockInformation.symbol)
       => ev.aux \in {"merged", "mergedThrow"}

\* C26 (as stated): when no command is in flight, the current connection
\* (and with it the tracked record, set in the same step) is that of the
\* command issued last among the commands whose fetch succeeded, in
\* whatever order the fetches completed.
C26_LastIssuedWins ==
    (\A c \in Slots : pc[c] = "idle")
    => \A k \in DOMAIN conns : conns[k].cmd <= conns[ws].cmd

====
